---------------------------- MODULE Spec2Model ----------------------------
(***************************************************************************)
(* Model of the OpenLLMetry / Google Cloud integration sample:             *)
(*   _gcs_image_uploader.py  - the media upload pipeline                   *)
(*   _logging_exporter.py    - the OTLP log record translator              *)
(*                                                                         *)
(* Python values are modelled as follows.                                  *)
(*   str    [t |-> "str",   v |-> sequence of code points]                 *)
(*   bytes  [t |-> "bytes", v |-> sequence of byte values 0..255]          *)
(*   None   [t |-> "None",  v |-> <<>>]                                    *)
(*   int    [t |-> "int",   v |-> <<integer>>]                             *)
(* The outcome of a call is Return(value) or Raise(exception name).        *)
(***************************************************************************)
EXTENDS Integers, Sequences, FiniteSets, TLC

VARIABLES
    decodeArg,      \* argument of the last direct call of _decode (or NoCall)
    decodeOut,      \* its outcome
    uri_prefix,     \* GcsImageUploader._uri_prefix
    running,        \* the work item each worker thread of the executor holds
    uploads,        \* upload_base64_image calls made so far: args and outcome
    uriCall,        \* last direct call of _compute_destination_uri
    workQueue,      \* the executor's queue of submitted _UploadTask work items
    futures,        \* the executor's futures, one per submitted work item
    store,          \* the blob store: destination uri -> object
    log,            \* records emitted through the module logger
    sevCall,        \* last call of _otlp_severity_to_gcp_severity
    insertCall,     \* last call of _compute_insert_id
    exportCall,     \* last call of CloudLoggingLogsExporter.export
    sevTextCall,    \* last call of _otlp_severity_text_to_gcp_severity
    tsCall          \* last call of _compute_timestamp

vars == <<decodeArg, decodeOut, uriCall, uri_prefix, uploads, workQueue,
          running, futures, store, log, sevCall, insertCall, exportCall,
          sevTextCall, tsCall>>

fnVars == <<decodeArg, decodeOut, uriCall>>
mediaVars == <<uploads, workQueue, running, futures, store, log>>
logVars == <<sevCall, insertCall, exportCall, sevTextCall, tsCall>>

-----------------------------------------------------------------------------
(* Outcomes and values *)

Return(v) == [kind |-> "return", value |-> v]
Raise(e) == [kind |-> "raise", exc |-> e]
NoCall == [kind |-> "nocall"]

Str(v) == [t |-> "str", v |-> v]
Bytes(v) == [t |-> "bytes", v |-> v]
None == [t |-> "None", v |-> <<>>]
PyInt(n) == [t |-> "int", v |-> <<n>>]

-----------------------------------------------------------------------------
(* Characters: the printable ASCII table, code points 32..126; the three  *)
(* characters that cannot be written in a string literal are named.       *)

Ascii ==
    <<" ", "!", "QUOTE", "#", "$", "%", "&", "'", "(", ")", "*", "+", ",", "-",
      ".", "/", "0", "1", "2", "3", "4", "5", "6", "7", "8", "9", ":", ";",
      "<", "=", ">", "?", "@", "A", "B", "C", "D", "E", "F", "G", "H", "I",
      "J", "K", "L", "M", "N", "O", "P", "Q", "R", "S", "T", "U", "V", "W",
      "X", "Y", "Z", "[", "BACKSLASH", "]", "^", "_", "BACKTICK", "a", "b", "c", "d", "e",
      "f", "g", "h", "i", "j", "k", "l", "m", "n", "o", "p", "q", "r", "s",
      "t", "u", "v", "w", "x", "y", "z", "{", "|", "}", "~">>

Ord(c) == 31 + (CHOOSE i \in 1..Len(Ascii) : Ascii[i] = c)

\* the code points of a literal written as a tuple of characters
S(chars) == [i \in 1..Len(chars) |-> Ord(chars[i])]

-----------------------------------------------------------------------------
(* Python str operations, on sequences of code points *)

startswith(s, p) == Len(s) >= Len(p) /\ SubSeq(s, 1, Len(p)) = p

\* s.find(p) + 1, or 0 when p does not occur in s
find(s, p) ==
    LET hits == {i \in 1..(Len(s) - Len(p) + 1) : SubSeq(s, i, i + Len(p) - 1) = p}
    IN IF hits = {} THEN 0 ELSE CHOOSE i \in hits : \A j \in hits : i <= j

\* p in s
contains(s, p) == find(s, p) # 0

\* s[n:]
slice_from(s, n) == SubSeq(s, n + 1, Len(s))

\* s[n]: a one-character string, or IndexError
getitem(s, n) ==
    IF n < Len(s) THEN Return(<<s[n + 1]>>) ELSE Raise("IndexError")

\* s.split(sep, 1), for a separator that occurs in s
split1(s, sep) ==
    LET i == find(s, sep)
    IN <<SubSeq(s, 1, i - 1), SubSeq(s, i + Len(sep), Len(s))>>

\* the UTF-8 bytes of one code point below U+0800
utf8_char(cp) ==
    IF cp < 128 THEN <<cp>> ELSE <<192 + (cp \div 64), 128 + (cp % 64)>>

RECURSIVE utf8(_)
utf8(s) == IF s = <<>> THEN <<>> ELSE utf8_char(Head(s)) \o utf8(Tail(s))

\* s.encode(utf-8)
encode_utf8(s) == Bytes(utf8(s))

-----------------------------------------------------------------------------
(* base64.b64decode(s) for a str s, validate=False *)

B64Alphabet ==
    S(<<"A", "B", "C", "D", "E", "F", "G", "H", "I", "J", "K", "L", "M",
        "N", "O", "P", "Q", "R", "S", "T", "U", "V", "W", "X", "Y", "Z",
        "a", "b", "c", "d", "e", "f", "g", "h", "i", "j", "k", "l", "m",
        "n", "o", "p", "q", "r", "s", "t", "u", "v", "w", "x", "y", "z",
        "0", "1", "2", "3", "4", "5", "6", "7", "8", "9", "+", "/">>)

IsB64Char(cp) == \E i \in 1..Len(B64Alphabet) : B64Alphabet[i] = cp

B64Val(cp) == (CHOOSE i \in 1..Len(B64Alphabet) : B64Alphabet[i] = cp) - 1

B64Pad == Ord("=")

\* binascii.a2b_base64 in non-strict mode: characters outside the alphabet
\* are skipped, a complete pad sequence ends the parse, and a quad left
\* incomplete at the end of the input is an error.
RECURSIVE a2b_base64(_, _, _, _, _, _)
a2b_base64(s, i, quad_pos, leftchar, pads, out) ==
    IF i > Len(s)
    THEN IF quad_pos # 0 THEN Raise("binascii.Error") ELSE Return(out)
    ELSE LET ch == s[i] IN
         IF ch = B64Pad
         THEN IF quad_pos >= 2 /\ quad_pos + pads + 1 >= 4
              THEN Return(out)
              ELSE a2b_base64(s, i + 1, quad_pos, leftchar,
                              IF quad_pos >= 2 THEN pads + 1 ELSE pads, out)
         ELSE IF ~IsB64Char(ch)
         THEN a2b_base64(s, i + 1, quad_pos, leftchar, pads, out)
         ELSE LET v == B64Val(ch) IN
              CASE quad_pos = 0 ->
                     a2b_base64(s, i + 1, 1, v, 0, out)
                [] quad_pos = 1 ->
                     a2b_base64(s, i + 1, 2, v % 16, 0,
                                Append(out, leftchar * 4 + (v \div 16)))
                [] quad_pos = 2 ->
                     a2b_base64(s, i + 1, 3, v % 4, 0,
                                Append(out, leftchar * 16 + (v \div 4)))
                [] quad_pos = 3 ->
                     a2b_base64(s, i + 1, 0, 0, 0,
                                Append(out, leftchar * 64 + v))

\* a str argument is first encoded as ASCII (ValueError when it cannot be)
b64decode(s) ==
    IF \E i \in 1..Len(s) : s[i] >= 128
    THEN Raise("ValueError")
    ELSE a2b_base64(s, 1, 0, 0, 0, <<>>)

\* binascii.Error is a subclass of ValueError
IsValueError(e) == e \in {"ValueError", "binascii.Error"}

-----------------------------------------------------------------------------
(* _gcs_image_uploader.py: string constants *)

DataScheme == S(<<"d", "a", "t", "a", ":">>)
Base64Marker == S(<<"b", "a", "s", "e", "6", "4", ",">>)
CharsetMarker == S(<<"c", "h", "a", "r", "s", "e", "t", "=">>)
Slash == S(<<"/">>)
Semicolon == S(<<";">>)
OctetStream ==
    S(<<"a", "p", "p", "l", "i", "c", "a", "t", "o", "n", "/", "o", "c", "t",
        "e", "t", "-", "s", "t", "r", "e", "a", "m">>)
TextPlain == S(<<"t", "e", "x", "t", "/", "p", "l", "a", "i", "n">>)
ImagePng == S(<<"i", "m", "a", "g", "e", "/", "p", "n", "g">>)
ImageJpeg == S(<<"i", "m", "a", "g", "e", "/", "j", "p", "e", "g">>)
ImageWebp == S(<<"i", "m", "a", "g", "e", "/", "w", "e", "b", "p">>)
ImageGif == S(<<"i", "m", "a", "g", "e", "/", "g", "i", "f">>)
ApplicationPdf ==
    S(<<"a", "p", "p", "l", "i", "c", "a", "t", "i", "o", "n", "/", "p", "d", "f">>)

-----------------------------------------------------------------------------
(* GcsImageUploader._decode *)

\* what _decode does: the call's outcome and the records it logs
DecodeResult(outcome, logged) == [out |-> outcome, logged |-> logged]

\* return base64_data.encode(utf-8), text/plain   (lines 147 .. 175)
DecodeFallback(base64_data) ==
    Return(<<encode_utf8(base64_data), Str(TextPlain)>>)

_decode(base64_data) ==
    IF ~startswith(base64_data, DataScheme)
    THEN LET d == b64decode(base64_data) IN
         IF d.kind = "return"
         THEN DecodeResult(Return(<<Str(OctetStream), Bytes(d.value)>>), <<>>)
         ELSE IF IsValueError(d.exc)
         THEN DecodeResult(DecodeFallback(base64_data), <<>>)
         ELSE DecodeResult(d, <<>>)
    ELSE LET got == getitem(base64_data, Len(DataScheme)) IN
         IF got.kind = "raise"
         THEN DecodeResult(got, <<>>)
         ELSE LET after_data == got.value IN
         IF ~contains(after_data, Slash) \/ ~contains(after_data, Semicolon)
         THEN DecodeResult(DecodeFallback(base64_data), <<"WARNING">>)
         ELSE LET parts == split1(after_data, Semicolon)
                  content_type == parts[1]
                  after_content_type == parts[2]
              IN
         IF ~contains(content_type, Slash)
         THEN DecodeResult(DecodeFallback(base64_data), <<"WARNING">>)
         ELSE IF startswith(after_content_type, CharsetMarker)
                 /\ ~contains(after_content_type, Semicolon)
         THEN DecodeResult(DecodeFallback(base64_data), <<"WARNING">>)
         ELSE LET after_charset ==
                      IF startswith(after_content_type, CharsetMarker)
                      THEN split1(after_content_type, Semicolon)[2]
                      ELSE after_content_type
              IN
         IF ~startswith(after_charset, Base64Marker)
         THEN DecodeResult(DecodeFallback(base64_data), <<"WARNING">>)
         ELSE LET base64_content == slice_from(after_charset, Len(Base64Marker))
                  d == b64decode(base64_content)
              IN
         IF d.kind = "return"
         THEN DecodeResult(Return(<<Str(content_type), Bytes(d.value)>>), <<>>)
         ELSE IF IsValueError(d.exc)
         THEN DecodeResult(DecodeFallback(base64_data), <<"ERROR">>)
         ELSE DecodeResult(d, <<>>)

-----------------------------------------------------------------------------
(* Inputs of _decode: every concatenation of one choice per segment of     *)
(* <scheme><mime><;><charset><marker><body>                                 *)

SchemeChoices == {DataScheme, <<>>}
MimeChoices == {ImagePng, S(<<"i", "m", "a", "g", "e", "p", "n", "g">>), <<>>}
SepChoices == {Semicolon, <<>>}
CharsetOk == S(<<"c", "h", "a", "r", "s", "e", "t", "=", "u", "t", "f", "-", "8", ";">>)
CharsetOpen == S(<<"c", "h", "a", "r", "s", "e", "t", "=", "u", "t", "f", "-", "8">>)
CharsetChoices == {<<>>, CharsetOk, CharsetOpen}
MarkerChoices == {Base64Marker, S(<<"b", "a", "s", "e", "3", "2", ",">>), <<>>}
BodyHi == S(<<"a", "G", "k", "=">>)
BodyABC == S(<<"Q", "U", "J", "D">>)
BodyEmpty == <<>>
BodyBadPad == S(<<"a", "G", "k">>)
BodyOneChar == S(<<"a">>)
\* U+00E9, a character outside ASCII
BodyNonAscii == <<233>>
GoodBodies == {BodyHi, BodyABC, BodyEmpty}
BadBodies == {BodyBadPad, BodyOneChar, BodyNonAscii}

DecodeInputs ==
    {sc \o m \o sp \o cs \o mk \o b :
        sc \in SchemeChoices, m \in MimeChoices, sp \in SepChoices,
        cs \in CharsetChoices, mk \in MarkerChoices,
        b \in GoodBodies \cup BadBodies}

-----------------------------------------------------------------------------
(* A direct call of _decode *)

DecodeCall ==
    /\ decodeArg # NoCall
    /\ decodeOut = NoCall
    /\ decodeOut' = _decode(decodeArg.v).out
    /\ UNCHANGED <<decodeArg, uriCall, uri_prefix, mediaVars, logVars>>

-----------------------------------------------------------------------------
(* _CONTENT_TYPE_TO_FILE_EXTENSION and _compute_suffix_for_content_type *)

_CONTENT_TYPE_TO_FILE_EXTENSION ==
    {<<ImageJpeg, S(<<".", "j", "p", "e", "g">>)>>,
     <<ImagePng, S(<<".", "p", "n", "g">>)>>,
     <<ImageWebp, S(<<".", "w", "e", "b", "p">>)>>,
     <<ImageGif, S(<<".", "g", "i", "f">>)>>,
     <<ApplicationPdf, S(<<".", "p", "d", "f">>)>>,
     <<TextPlain, S(<<".", "t", "x", "t">>)>>}

\* dict.get(key, default) for a key that is any hashable value: a bytes key
\* equals no str key
_compute_suffix_for_content_type(content_type) ==
    LET hits == {e \in _CONTENT_TYPE_TO_FILE_EXTENSION :
                    content_type.t = "str" /\ e[1] = content_type.v}
    IN IF hits = {} THEN <<>> ELSE (CHOOSE e \in hits : TRUE)[2]

-----------------------------------------------------------------------------
(* str.format with automatically numbered fields: the template is given   *)
(* as the literal pieces around its replacement fields                     *)

RECURSIVE interleave(_, _)
interleave(pieces, args) ==
    IF Len(pieces) = 1 THEN pieces[1]
    ELSE pieces[1] \o args[1] \o interleave(Tail(pieces), Tail(args))

format(pieces, args) ==
    IF Len(args) < Len(pieces) - 1
    THEN Raise("IndexError")
    ELSE Return(interleave(pieces, args))

-----------------------------------------------------------------------------
(* GcsImageUploader._compute_destination_uri *)

HexDigits ==
    S(<<"0", "1", "2", "3", "4", "5", "6", "7", "8", "9", "a", "b", "c", "d",
        "e", "f">>)

\* the values uuid.uuid4().hex is drawn from: 32 lowercase hex digits
NumRandomIds == 2
UuidHex(k) == [i \in 1..32 |-> HexDigits[((k * i) % 16) + 1]]
RandomIds == {UuidHex(k) : k \in 1..NumRandomIds}

\* the template of line 181: five replacement fields
DestinationTemplate ==
    <<<<>>,
      S(<<"/", "t", "r", "a", "c", "e", "s", "/">>),
      S(<<"/", "s", "p", "a", "n", "s", "/">>),
      S(<<"/", "i", "m", "a", "g", "e", "s", "/">>),
      <<>>,
      <<>>>>

_compute_destination_uri(trace_id, span_id, content_type, random_id) ==
    LET suffix == _compute_suffix_for_content_type(content_type)
    IN format(DestinationTemplate, <<trace_id, span_id, random_id, suffix>>)

-----------------------------------------------------------------------------
(* The executor (concurrent.futures.ThreadPoolExecutor) and the blob store *)

NumWorkers == 2
Workers == 1..NumWorkers
Idle == [state |-> "idle"]

Pending == [state |-> "PENDING"]
Finished(outcome) == [state |-> "FINISHED", outcome |-> outcome]

\* _PendingUpload
_PendingUpload(destination_uri, metadata, payload, content_type) ==
    [destination_uri |-> destination_uri, metadata |-> metadata,
     payload |-> payload, content_type |-> content_type]

\* names bound in the module namespace of _gcs_image_uploader.py
ModuleNames ==
    {"base64", "logging", "uuid", "Client", "logger",
     "_CONTENT_TYPE_TO_FILE_EXTENSION", "_PendingUpload", "_UploadTask",
     "_execute_task", "GcsImageUploader"}

NoMetadata == [k \in {} |-> None]

\* _UploadTask.execute: the outcome and the store it leaves.  Lines 69 and 70
\* read the names Blob and BytesIO in the module namespace.  Past them,
\* upload_from_file creates or overwrites the object, and the assignment to
\* blob.metadata changes the local Blob only (nothing calls patch).
_UploadTask_execute(pending, st) ==
    IF "Blob" \notin ModuleNames \/ "BytesIO" \notin ModuleNames
    THEN [out |-> Raise("NameError"), store |-> st]
    ELSE LET uri == pending.destination_uri
         IN [out |-> Return(None),
             store |-> [u \in DOMAIN st \cup {uri} |->
                          IF u = uri
                          THEN [payload |-> pending.payload,
                                metadata |-> NoMetadata]
                          ELSE st[u]]]

\* _execute_task
_execute_task(pending, st) == _UploadTask_execute(pending, st)

\* _schedule_write: the queue and the futures after executor.submit; the
\* future submit returns is not kept
_schedule_write(destination_uri, metadata, payload, content_type, queue, futs) ==
    LET pending == _PendingUpload(destination_uri, metadata, payload, content_type)
    IN [workQueue |-> Append(queue, [future |-> Len(futs) + 1, task |-> pending]),
        futures |-> Append(futs, Pending)]

-----------------------------------------------------------------------------
(* GcsImageUploader.upload_base64_image *)

Provenance ==
    S(<<"p", "y", "t", "h", "o", "n", "-", "g", "c", "p", "-", "o", "1", "1",
        "y", "-", "t", "r", "a", "c", "e", "l", "o", "o", "p", "-", "s", "a",
        "m", "p", "l", "e">>)

UploadMetadata(trace_id, span_id, image_name) ==
    [trace_id |-> Str(trace_id), span_id |-> Str(span_id),
     original_image_name |-> Str(image_name), provenance |-> Str(Provenance)]

\* the call's outcome, the records it logs, and the queue and futures it leaves
upload_base64_image(trace_id, span_id, image_name, image_file, random_id, queue, futs) ==
    LET d == _decode(image_file)
        same == [workQueue |-> queue, futures |-> futs]
    IN IF d.out.kind = "raise"
       THEN [out |-> d.out, logged |-> d.logged, sched |-> same]
       ELSE LET raw_bytes == d.out.value[1]
                content_type == d.out.value[2]
                u == _compute_destination_uri(trace_id, span_id, content_type,
                                              random_id)
            IN IF u.kind = "raise"
               THEN [out |-> u, logged |-> d.logged, sched |-> same]
               ELSE [out |-> Return(Str(u.value)),
                     logged |-> d.logged,
                     sched |-> _schedule_write(
                                  u.value,
                                  UploadMetadata(trace_id, span_id, image_name),
                                  raw_bytes, content_type, queue, futs)]

-----------------------------------------------------------------------------
(* Initial state: an uploader whose fields are set as lines 106 .. 108 of  *)
(* __init__ set them, an empty executor, an empty store, no call made yet  *)

Prefixes ==
    {S(<<"g", "s", ":", "/", "/", "b">>),
     S(<<"g", "s", ":", "/", "/", "b", "/", "p">>)}

NoStore == [u \in {} |-> None]

FnIdle == decodeArg = NoCall /\ decodeOut = NoCall /\ uriCall = NoCall

MediaIdle ==
    /\ uploads = <<>>
    /\ workQueue = <<>>
    /\ running = [w \in Workers |-> Idle]
    /\ futures = <<>>
    /\ store = NoStore
    /\ log = <<>>

LogIdle ==
    /\ sevCall = NoCall
    /\ insertCall = NoCall
    /\ exportCall = NoCall
    /\ sevTextCall = NoCall
    /\ tsCall = NoCall

Init == uri_prefix \in Prefixes /\ FnIdle /\ MediaIdle /\ LogIdle

-----------------------------------------------------------------------------
(* A direct call of _compute_destination_uri *)

TraceIds == {S(<<"t", "1">>), S(<<"t", "2">>)}
SpanIds == {S(<<"s", "1">>), S(<<"s", "2">>)}
UnknownType == S(<<"x", "/", "y">>)
ContentTypes ==
    {Str(e[1]) : e \in _CONTENT_TYPE_TO_FILE_EXTENSION}
        \cup {Str(UnknownType), Str(OctetStream), Bytes(utf8(BodyHi))}

UriArgs ==
    [trace_id : TraceIds, span_id : SpanIds, content_type : ContentTypes,
     random_id : RandomIds, out : {NoCall}]

ComputeDestinationUriCall ==
    /\ uriCall # NoCall
    /\ uriCall.out = NoCall
    /\ uriCall' = [uriCall EXCEPT !.out =
                      _compute_destination_uri(uriCall.trace_id, uriCall.span_id,
                                               uriCall.content_type,
                                               uriCall.random_id)]
    /\ UNCHANGED <<decodeArg, decodeOut, uri_prefix, mediaVars, logVars>>

\* _decode applied to each input
InitDecode ==
    /\ uri_prefix \in Prefixes
    /\ decodeArg \in {Str(s) : s \in DecodeInputs}
    /\ decodeOut = NoCall
    /\ uriCall = NoCall
    /\ MediaIdle
    /\ LogIdle

SpecDecode == InitDecode /\ [][DecodeCall]_vars

\* _compute_destination_uri applied to each input
InitUri ==
    /\ uri_prefix \in Prefixes
    /\ decodeArg = NoCall
    /\ decodeOut = NoCall
    /\ uriCall \in UriArgs
    /\ MediaIdle
    /\ LogIdle

SpecUri == InitUri /\ [][ComputeDestinationUriCall]_vars

-----------------------------------------------------------------------------
(* The upload pipeline: callers, the executor's workers, the store *)

MaxUploads == 2
MaxTasks == 2

ImageNames == {S(<<"i", "m", "g">>)}

WellFormedPng == DataScheme \o ImagePng \o Semicolon \o Base64Marker \o BodyHi
ImageFiles == {WellFormedPng, BodyHi, DataScheme, DataScheme \o ImagePng}

\* the records a call of upload_base64_image logs (all come from _decode)
Logged(levels, call) ==
    [i \in 1..Len(levels) |->
        [level |-> levels[i], source |-> "_decode", ref |-> call]]

UploadBase64Image(trace_id, span_id, image_name, image_file, random_id) ==
    /\ Len(uploads) < MaxUploads
    /\ LET r == upload_base64_image(trace_id, span_id, image_name, image_file,
                                    random_id, workQueue, futures)
       IN /\ uploads' = Append(uploads,
                               [trace_id |-> trace_id, span_id |-> span_id,
                                image_name |-> image_name,
                                image_file |-> image_file, out |-> r.out])
          /\ log' = log \o Logged(r.logged, Len(uploads) + 1)
          /\ workQueue' = r.sched.workQueue
          /\ futures' = r.sched.futures
    /\ UNCHANGED <<fnVars, uri_prefix, running, store, logVars>>

\* a direct call of _schedule_write
TaskUris ==
    {p \o S(<<"/", "o", "1">>) : p \in Prefixes}
TaskPayloads == {utf8(S(<<"h", "i">>)), utf8(S(<<"A", "B", "C">>))}

ScheduleWrite(destination_uri, metadata, payload, content_type) ==
    /\ Len(futures) < MaxTasks
    /\ LET r == _schedule_write(destination_uri, metadata, payload,
                                content_type, workQueue, futures)
       IN /\ workQueue' = r.workQueue
          /\ futures' = r.futures
    /\ UNCHANGED <<fnVars, uri_prefix, uploads, running, store, log, logVars>>

\* a worker thread takes the next work item off the queue
TakeTask(w) ==
    /\ running[w] = Idle
    /\ workQueue # <<>>
    /\ running' = [running EXCEPT ![w] = Head(workQueue)]
    /\ workQueue' = Tail(workQueue)
    /\ UNCHANGED <<fnVars, uri_prefix, uploads, futures, store, log, logVars>>

\* the worker runs _execute_task; the executor stores the result or the
\* exception in the work item's future and the worker goes on
RunTask(w) ==
    /\ running[w] # Idle
    /\ LET r == _execute_task(running[w].task, store)
       IN /\ futures' = [futures EXCEPT ![running[w].future] = Finished(r.out)]
          /\ store' = r.store
    /\ running' = [running EXCEPT ![w] = Idle]
    /\ UNCHANGED <<fnVars, uri_prefix, uploads, workQueue, log, logVars>>

TaskMetadata == UploadMetadata(S(<<"t", "1">>), S(<<"s", "1">>), S(<<"i", "m", "g">>))

MediaNext ==
    \/ \E t \in TraceIds, n \in ImageNames, f \in ImageFiles, r \in RandomIds :
          UploadBase64Image(t, S(<<"s", "1">>), n, f, r)
    \/ \E u \in TaskUris, p \in TaskPayloads :
          ScheduleWrite(u, TaskMetadata, Bytes(p), Str(ImagePng))
    \/ \E w \in Workers : TakeTask(w)
    \/ \E w \in Workers : RunTask(w)

SpecMedia == Init /\ [][MediaNext]_vars

-----------------------------------------------------------------------------
(* _logging_exporter.py: severity mapping *)

\* opentelemetry SeverityNumber members, by value
UNSPECIFIED == 0
TRACE == 1
DEBUG == 5
INFO == 9
WARN == 13
ERROR == 17
FATAL == 21

\* a member of log_severity_pb2.LogSeverity
LogSeverity(name) == [t |-> "LogSeverity", v |-> name]

\* the mapping with the last band opened at FATAL + 1 instead of FATAL
SeverityFatalBandOffByOne(oseverity_number) ==
    IF oseverity_number = UNSPECIFIED THEN LogSeverity("DEFAULT")
    ELSE IF oseverity_number >= TRACE /\ oseverity_number < INFO
    THEN LogSeverity("DEBUG")
    ELSE IF oseverity_number >= INFO /\ oseverity_number < WARN
    THEN LogSeverity("INFO")
    ELSE IF oseverity_number >= WARN /\ oseverity_number < ERROR
    THEN LogSeverity("WARNING")
    ELSE IF oseverity_number >= ERROR /\ oseverity_number < FATAL
    THEN LogSeverity("ERROR")
    ELSE IF oseverity_number > FATAL THEN LogSeverity("CRITICAL")
    ELSE None

_otlp_severity_to_gcp_severity(oseverity_number) ==
    IF oseverity_number = UNSPECIFIED THEN LogSeverity("DEFAULT")
    ELSE IF oseverity_number >= TRACE /\ oseverity_number < INFO
    THEN LogSeverity("DEBUG")
    ELSE IF oseverity_number >= DEBUG /\ oseverity_number < INFO
    THEN LogSeverity("DEBUG")
    ELSE IF oseverity_number >= INFO /\ oseverity_number < WARN
    THEN LogSeverity("INFO")
    ELSE IF oseverity_number >= WARN /\ oseverity_number < ERROR
    THEN LogSeverity("WARNING")
    ELSE IF oseverity_number >= ERROR /\ oseverity_number < FATAL
    THEN LogSeverity("ERROR")
    ELSE IF oseverity_number >= FATAL THEN LogSeverity("CRITICAL")
    ELSE None

MaxSeverity == 60
BelowUnspecified == 3
SeverityNumbers == (0 - BelowUnspecified)..MaxSeverity

SeverityCall ==
    /\ sevCall # NoCall
    /\ sevCall.out = NoCall
    /\ sevCall' = [sevCall EXCEPT !.out =
                      Return(_otlp_severity_to_gcp_severity(sevCall.arg))]
    /\ UNCHANGED <<fnVars, uri_prefix, mediaVars, insertCall, exportCall, sevTextCall, tsCall>>

InitSeverity ==
    /\ uri_prefix \in Prefixes
    /\ FnIdle
    /\ MediaIdle
    /\ sevCall \in [arg : SeverityNumbers, out : {NoCall}]
    /\ insertCall = NoCall
    /\ exportCall = NoCall
    /\ sevTextCall = NoCall
    /\ tsCall = NoCall

SpecSeverity == InitSeverity /\ [][SeverityCall]_vars

-----------------------------------------------------------------------------
(* _logging_exporter.py: the insert id *)

\* a dict is the sequence of its <<key, value>> items in insertion order
DictKeys(d) == [i \in 1..Len(d) |-> d[i][1]]
DictHas(d, k) == \E i \in 1..Len(d) : d[i][1] = k
DictItem(d, k) == d[CHOOSE i \in 1..Len(d) : d[i][1] = k][2]
DictGet(d, k, default) == IF DictHas(d, k) THEN DictItem(d, k) ELSE default
\* two dicts that hold the same items, in whatever order
SameDict(d, e) ==
    {d[i] : i \in 1..Len(d)} = {e[i] : i \in 1..Len(e)}

\* str < str: lexicographic on code points
RECURSIVE StrLess(_, _)
StrLess(a, b) ==
    IF b = <<>> THEN FALSE
    ELSE IF a = <<>> THEN TRUE
    ELSE IF Head(a) # Head(b) THEN Head(a) < Head(b)
    ELSE StrLess(Tail(a), Tail(b))

\* sorted(keys), for distinct keys
RECURSIVE sorted(_)
sorted(keys) ==
    IF keys = <<>> THEN <<>>
    ELSE LET m == CHOOSE i \in 1..Len(keys) :
                     \A j \in 1..Len(keys) : j = i \/ StrLess(keys[i], keys[j])
         IN <<keys[m]>> \o sorted([j \in 1..(Len(keys) - 1) |->
                                     IF j < m THEN keys[j] ELSE keys[j + 1]])

\* str(n) for an int n >= 0
RECURSIVE Digits(_)
Digits(n) ==
    IF n < 10 THEN <<48 + n>> ELSE Digits(n \div 10) \o <<48 + (n % 10)>>

\* the text format() substitutes for a value
PyStr(v) ==
    CASE v.t = "str" -> v.v
      [] v.t = "None" -> S(<<"N", "o", "n", "e">>)
      [] v.t = "int" -> Digits(v.v[1])

EqualsSign == S(<<"=">>)
NullSentinel == S(<<"(", "n", "u", "l", "l", ")">>)
EventNameKey == S(<<"e", "v", "e", "n", "t", ".", "n", "a", "m", "e">>)
AttributesOpen == S(<<"a", "t", "t", "r", "i", "b", "u", "t", "e", "s", "[", "QUOTE">>)
ResourceAttributesOpen ==
    S(<<"r", "e", "s", "o", "u", "r", "c", "e", ".", "a", "t", "t", "r",
        "i", "b", "u", "t", "e", "s", "[", "QUOTE">>)
EntryClose == S(<<"QUOTE", "]", "=">>)

\* hasher.update(data): a hash object takes bytes-like data only
hasher_update(fed, data) ==
    IF data.t = "bytes" THEN Return(fed \o data.v) ELSE Raise("TypeError")

\* hasher.hexdigest(): the digest as a function of all the bytes fed
hexdigest(hash_algo, fed) == [t |-> "hexdigest", algo |-> hash_algo, of |-> fed]

\* _add_to_hasher: the bytes fed after it, or the exception it raises
RECURSIVE _add_to_hasher(_, _)
_add_to_hasher(fed, properties) ==
    IF properties = <<>> THEN Return(fed)
    ELSE LET property_name == properties[1][1]
             given == properties[1][2]
             property_value == IF given.t = "None" THEN Str(NullSentinel) ELSE given
             u == hasher_update(
                      fed, Str(property_name \o EqualsSign \o PyStr(property_value)))
         IN IF u.kind = "raise" THEN u
            ELSE _add_to_hasher(u.value, Tail(properties))

\* the loops of lines 114 .. 117 and 120 .. 123 over already sorted keys
RECURSIVE FeedEntries(_, _, _, _, _)
FeedEntries(fed, open, keys, d, skip) ==
    IF keys = <<>> THEN Return(fed)
    ELSE IF Head(keys) \in skip THEN FeedEntries(fed, open, Tail(keys), d, skip)
    ELSE LET entry == open \o Head(keys) \o EntryClose
                         \o PyStr(DictItem(d, Head(keys)))
             u == hasher_update(fed, Str(entry))
         IN IF u.kind = "raise" THEN u
            ELSE FeedEntries(u.value, open, Tail(keys), d, skip)

\* the attributes a Python dict has, as far as the module names any
DictAttributes == {"keys", "values", "items", "get", "update"}

_compute_insert_id(olog, hash_algo) ==
    IF "log" \notin DOMAIN olog THEN Raise("AttributeError")
    ELSE LET attributes ==
                 IF olog.log.attributes.t = "None" THEN <<>>
                 ELSE olog.log.attributes.v
             event_name == DictGet(attributes, EventNameKey, Str(<<>>))
             first == _add_to_hasher(<<>>,
                          <<<<S(<<"e", "v", "e", "n", "t", "_", "n", "a", "m", "e">>), event_name>>,
                            <<
    S(<<"t", "i", "m", "e", "s", "t", "a", "m", "p">>),
        olog.log.timestamp>>,
                            <<S(<<"t", "r", "a", "c", "e", "_", "i", "d">>), olog.log.trace_id>>,
                            <<S(<<"s", "p", "a", "n", "_", "i", "d">>), olog.log.span_id>>>>)
         IN IF first.kind = "raise" THEN first
            ELSE LET second == FeedEntries(first.value, AttributesOpen,
                                           sorted(DictKeys(attributes)),
                                           attributes, {EventNameKey})
                 IN IF second.kind = "raise" THEN second
                    ELSE IF "key" \notin DictAttributes THEN Raise("AttributeError")
                    ELSE LET resource_attributes == olog.resource.attributes
                             third == FeedEntries(second.value, ResourceAttributesOpen,
                                                  sorted(DictKeys(resource_attributes)),
                                                  resource_attributes, {})
                         IN IF third.kind = "raise" THEN third
                            ELSE Return(hexdigest(hash_algo, third.value))

-----------------------------------------------------------------------------
(* Log views *)

Dict(items) == [t |-> "dict", v |-> items]

\* opentelemetry LogRecord, LogData and Resource, as far as the module reads them
LogRecord(timestamp, trace_id, span_id, attributes, resource_attributes) ==
    [timestamp |-> timestamp, trace_id |-> trace_id, span_id |-> span_id,
     attributes |-> attributes, resource |-> [attributes |-> resource_attributes]]

LogData(log_record) ==
    [log_record |-> log_record, instrumentation_scope |-> None]

\* what an _OtlpLog exposes: the properties project, resource, scope, record
_OtlpLog(project, log_data) ==
    [project |-> project, resource |-> log_data.log_record.resource,
     scope |-> log_data.instrumentation_scope, record |-> log_data.log_record]

\* an object that also has the attribute log that _compute_insert_id reads
OtlpLogWithLog(project, log_data) ==
    [project |-> project, resource |-> log_data.log_record.resource,
     scope |-> log_data.instrumentation_scope, record |-> log_data.log_record,
     log |-> log_data.log_record]

KeyA == S(<<"a">>)
KeyB == S(<<"b">>)
ValX == Str(S(<<"x">>))
ValY == Str(S(<<"y">>))

AttributeChoices ==
    {None,
     Dict(<<<<KeyA, ValX>>, <<KeyB, ValY>>>>),
     Dict(<<<<KeyB, ValY>>, <<KeyA, ValX>>>>),
     Dict(<<<<KeyA, None>>, <<KeyB, ValY>>>>),
     Dict(<<<<KeyA, Str(S(<<"N", "o", "n", "e">>))>>, <<KeyB, ValY>>>>),
     Dict(<<<<EventNameKey, Str(<<>>)>>>>)}

ResourceAttributeChoices ==
    {<<<<KeyA, ValX>>, <<KeyB, PyInt(1)>>>>,
     <<<<KeyB, PyInt(1)>>, <<KeyA, ValX>>>>,
     <<<<KeyA, ValX>>, <<KeyB, Str(S(<<"1">>))>>>>}

TimestampChoices == {None, PyInt(17)}
TraceIdChoices == {None, Str(NullSentinel)}

LogRecords ==
    {LogRecord(ts, tr, PyInt(5), at, ra) :
        ts \in TimestampChoices, tr \in TraceIdChoices,
        at \in AttributeChoices, ra \in ResourceAttributeChoices}

Project == S(<<"p">>)
HashAlgorithm == "sha1"

InsertIdCall ==
    /\ insertCall # NoCall
    /\ insertCall.outA = NoCall
    /\ insertCall' =
          [insertCall EXCEPT
              !.outA = _compute_insert_id(insertCall.a, HashAlgorithm),
              !.outB = _compute_insert_id(insertCall.b, HashAlgorithm)]
    /\ UNCHANGED <<fnVars, uri_prefix, mediaVars, sevCall, exportCall, sevTextCall, tsCall>>

\* _compute_insert_id applied to two views
InitInsertId ==
    /\ uri_prefix \in Prefixes
    /\ FnIdle
    /\ MediaIdle
    /\ sevCall = NoCall
    /\ \E ra \in LogRecords, rb \in LogRecords :
          \/ insertCall = [a |-> _OtlpLog(Project, LogData(ra)),
                           b |-> _OtlpLog(Project, LogData(rb)),
                           outA |-> NoCall, outB |-> NoCall]
          \/ insertCall = [a |-> OtlpLogWithLog(Project, LogData(ra)),
                           b |-> OtlpLogWithLog(Project, LogData(rb)),
                           outA |-> NoCall, outB |-> NoCall]
    /\ exportCall = NoCall
    /\ sevTextCall = NoCall
    /\ tsCall = NoCall

SpecInsertId == InitInsertId /\ [][InsertIdCall]_vars

-----------------------------------------------------------------------------
(* CloudLoggingLogsExporter.export *)

\* export: its result, the records it hands to _to_gcp_format and the entries
\* it writes to the log sink.  The body is a bare pass.
export(batch) ==
    [out |-> Return(None), translated |-> <<>>, written |-> <<>>]

MaxBatch == 4
BatchRecords ==
    {LogData(LogRecord(ts, None, PyInt(5), None, <<>>)) :
        ts \in {None, PyInt(17), PyInt(18)}}
RECURSIVE SeqsUpTo(_, _)
SeqsUpTo(set, n) ==
    IF n = 0 THEN {<<>>}
    ELSE LET shorter == SeqsUpTo(set, n - 1)
         IN shorter \cup {Append(q, x) : q \in shorter, x \in set}
Batches == SeqsUpTo(BatchRecords, MaxBatch)

ExportCall ==
    /\ exportCall # NoCall
    /\ exportCall.out = NoCall
    /\ LET r == export(exportCall.batch)
       IN exportCall' = [exportCall EXCEPT !.out = r.out,
                                           !.translated = r.translated,
                                           !.written = r.written]
    /\ UNCHANGED <<fnVars, uri_prefix, mediaVars, sevCall, insertCall, sevTextCall, tsCall>>

InitExport ==
    /\ uri_prefix \in Prefixes
    /\ FnIdle
    /\ MediaIdle
    /\ sevCall = NoCall
    /\ insertCall = NoCall
    /\ sevTextCall = NoCall
    /\ tsCall = NoCall
    /\ exportCall \in [batch : Batches, out : {NoCall}, translated : {<<>>},
                       written : {<<>>}]

SpecExport == InitExport /\ [][ExportCall]_vars

-----------------------------------------------------------------------------
(* _logging_exporter.py: severity text mapping *)

\* str.lower and str.isdigit on ASCII code points
lower_char(cp) == IF cp >= 65 /\ cp <= 90 THEN cp + 32 ELSE cp
lower(s) == [i \in 1..Len(s) |-> lower_char(s[i])]
isdigit(cp) == cp >= 48 /\ cp <= 57

\* prefix_map of lines 159 .. 166
prefix_map ==
    {<<S(<<"t", "r", "a", "c", "e">>), "DEBUG">>,
     <<S(<<"d", "e", "b", "u", "g">>), "DEBUG">>,
     <<S(<<"i", "n", "f", "o">>), "INFO">>,
     <<S(<<"w", "a", "r", "n">>), "WARNING">>,
     <<S(<<"e", "r", "r", "o", "r">>), "ERROR">>,
     <<S(<<"f", "a", "t", "a", "l">>), "CRITICAL">>}

\* the loop of lines 168 .. 169: lower_text[-1] is read before every test
RECURSIVE StripTrailingDigits(_)
StripTrailingDigits(lower_text) ==
    IF lower_text = <<>> THEN Raise("IndexError")
    ELSE IF isdigit(lower_text[Len(lower_text)])
    THEN StripTrailingDigits(SubSeq(lower_text, 1, Len(lower_text) - 1))
    ELSE Return(lower_text)

_otlp_severity_text_to_gcp_severity(oseverity_text) ==
    LET stripped == StripTrailingDigits(lower(oseverity_text))
    IN IF stripped.kind = "raise" THEN stripped
       ELSE LET hits == {e \in prefix_map : e[1] = stripped.value}
            IN IF hits = {} THEN Return(LogSeverity("DEFAULT"))
               ELSE Return(LogSeverity((CHOOSE e \in hits : TRUE)[2]))

\* severity texts: a word followed by a run of decimal digits
SeverityWords ==
    {S(<<"t", "r", "a", "c", "e">>), S(<<"D", "E", "B", "U", "G">>),
     S(<<"I", "n", "f", "o">>), S(<<"w", "a", "r", "n">>),
     S(<<"W", "A", "R", "N", "I", "N", "G">>), S(<<"e", "r", "r", "o", "r">>),
     S(<<"E", "R", "R">>), S(<<"F", "a", "t", "a", "l">>),
     S(<<"i", "n", "f", "o", "2", "x">>), S(<<"v", "e", "r", "b", "o", "s", "e">>),
     <<>>}
MaxDigitRun == 2
DigitRuns == SeqsUpTo({Ord("1"), Ord("7")}, MaxDigitRun)
SeverityTexts == {w \o d : w \in SeverityWords, d \in DigitRuns}

SeverityTextCall ==
    /\ sevTextCall # NoCall
    /\ sevTextCall.out = NoCall
    /\ sevTextCall' =
          [sevTextCall EXCEPT
              !.out = _otlp_severity_text_to_gcp_severity(sevTextCall.arg)]
    /\ UNCHANGED <<fnVars, uri_prefix, mediaVars, sevCall, insertCall, exportCall, tsCall>>

InitSeverityText ==
    /\ uri_prefix \in Prefixes
    /\ FnIdle
    /\ MediaIdle
    /\ sevCall = NoCall
    /\ insertCall = NoCall
    /\ exportCall = NoCall
    /\ sevTextCall \in [arg : SeverityTexts, out : {NoCall}]
    /\ tsCall = NoCall

SpecSeverityText == InitSeverityText /\ [][SeverityTextCall]_vars

-----------------------------------------------------------------------------
(* _logging_exporter.py: timestamp *)

NanosPerSecond == 1000 * 1000 * 1000

\* a Python int counting nanoseconds, written in base NanosPerSecond: the
\* number seconds * NanosPerSecond + nanos with 0 <= nanos < NanosPerSecond
Nanoseconds(seconds, nanos) == [t |-> "int", v |-> <<seconds, nanos>>]

\* the largest value of a protobuf int32 field
Int32Max == (2^30 - 1) * 2 + 1

FitsInt32(n) ==
    \/ n.v[1] < Int32Max \div NanosPerSecond
    \/ /\ n.v[1] = Int32Max \div NanosPerSecond
       /\ n.v[2] <= Int32Max % NanosPerSecond

\* timestamp_pb2.Timestamp(nanos=value): seconds keeps its default 0 and the
\* int32 field nanos takes the value, ValueError when it does not fit
Timestamp(nanos) ==
    IF FitsInt32(nanos)
    THEN Return([t |-> "Timestamp", seconds |-> 0,
                 nanos |-> nanos.v[1] * NanosPerSecond + nanos.v[2]])
    ELSE Raise("ValueError")

_compute_timestamp(olog) ==
    IF "timestamp" \notin DOMAIN olog THEN Raise("AttributeError")
    ELSE Timestamp(olog.timestamp)

\* an object that also has the attribute timestamp that _compute_timestamp reads
OtlpLogWithTimestamp(project, log_data) ==
    [project |-> project, resource |-> log_data.log_record.resource,
     scope |-> log_data.instrumentation_scope, record |-> log_data.log_record,
     timestamp |-> log_data.log_record.timestamp]

MaxSeconds == 3
EpochSeconds == 0..MaxSeconds \cup {1700 * 1000 * 1000}
SubSecondNanos ==
    {0, 1, Int32Max % NanosPerSecond, (Int32Max % NanosPerSecond) + 1,
     NanosPerSecond - 1}
SourceTimestamps ==
    {Nanoseconds(s, n) : s \in EpochSeconds, n \in SubSecondNanos}

TimestampCall ==
    /\ tsCall # NoCall
    /\ tsCall.out = NoCall
    /\ tsCall' = [tsCall EXCEPT !.out = _compute_timestamp(tsCall.olog)]
    /\ UNCHANGED <<fnVars, uri_prefix, mediaVars, sevCall, insertCall, exportCall, sevTextCall>>

InitTimestamp ==
    /\ uri_prefix \in Prefixes
    /\ FnIdle
    /\ MediaIdle
    /\ sevCall = NoCall
    /\ insertCall = NoCall
    /\ exportCall = NoCall
    /\ sevTextCall = NoCall
    /\ \E ts \in SourceTimestamps :
          LET log_data == LogData(LogRecord(ts, None, PyInt(5), None, <<>>))
          IN \/ tsCall = [olog |-> _OtlpLog(Project, log_data), t |-> ts,
                          out |-> NoCall]
             \/ tsCall = [olog |-> OtlpLogWithTimestamp(Project, log_data),
                          t |-> ts, out |-> NoCall]

SpecTimestamp == InitTimestamp /\ [][TimestampCall]_vars

-----------------------------------------------------------------------------
(* Every operation together *)

Next ==
    \/ DecodeCall
    \/ ComputeDestinationUriCall
    \/ MediaNext
    \/ SeverityCall
    \/ InsertIdCall
    \/ ExportCall
    \/ SeverityTextCall
    \/ TimestampCall

Spec == Init /\ [][Next]_vars

-----------------------------------------------------------------------------
(* Properties of _decode *)

HasSlash(m) == contains(m, Slash)

\* the data URIs of DecodeInputs that follow data:<mime>;[charset=...;]base64,<b64>
WellFormedParts ==
    {<<m, cs, b>> : m \in {x \in MimeChoices : HasSlash(x)},
                    cs \in {<<>>, CharsetOk}, b \in GoodBodies}

WellFormedUri(p) ==
    DataScheme \o p[1] \o Semicolon \o p[2] \o Base64Marker \o p[3]

WellFormedDataUris == {WellFormedUri(p) : p \in WellFormedParts}

\* the data URIs of DecodeInputs that break the format in some segment
MalformedDataUris ==
    {s \in DecodeInputs : startswith(s, DataScheme)} \ WellFormedDataUris

DecodeDone == decodeArg # NoCall /\ decodeOut # NoCall

\* C1: for every malformed data URI, _decode does not raise and returns the
\* content type text/plain together with the UTF-8 bytes of the whole input.
\* The pair is accepted in either order, so that only a raise or a different
\* content type or payload violates the statement.
C1_MalformedFallsBackToTextPlain ==
    (DecodeDone /\ decodeArg.v \in MalformedDataUris) =>
        /\ decodeOut.kind = "return"
        /\ decodeOut.value \in
              {<<Str(TextPlain), encode_utf8(decodeArg.v)>>,
               <<encode_utf8(decodeArg.v), Str(TextPlain)>>}

\* C2: for every well-formed data:<mime>;[charset=...;]base64,<b64>, _decode
\* returns the content type <mime> and exactly the base64-decoding of <b64>.
C2_WellFormedDecodesToMimeAndPayload ==
    \A p \in WellFormedParts :
        (DecodeDone /\ decodeArg.v = WellFormedUri(p)) =>
            decodeOut = Return(<<Str(p[1]), Bytes(b64decode(p[3]).value)>>)

-----------------------------------------------------------------------------
(* Properties of _compute_destination_uri *)

IsUuidHex(r) == Len(r) = 32 /\ \A i \in 1..32 : \E j \in 1..16 : HexDigits[j] = r[i]

ExtensionOf(content_type) ==
    IF content_type.t = "str"
          /\ \E e \in _CONTENT_TYPE_TO_FILE_EXTENSION : e[1] = content_type.v
    THEN (CHOOSE e \in _CONTENT_TYPE_TO_FILE_EXTENSION : e[1] = content_type.v)[2]
    ELSE <<>>

\* C3: _compute_destination_uri returns
\* <uri_prefix>/traces/<trace_id>/spans/<span_id>/images/<random_hex><ext>,
\* random_hex being 32 lowercase hex digits and ext the table entry of the
\* content type, or empty when the table has none.
C3_DestinationUriLayout ==
    (uriCall # NoCall /\ uriCall.out # NoCall) =>
        /\ IsUuidHex(uriCall.random_id)
        /\ uriCall.out =
              Return(uri_prefix \o S(<<"/", "t", "r", "a", "c", "e", "s", "/">>)
                        \o uriCall.trace_id \o S(<<"/", "s", "p", "a", "n", "s", "/">>)
                        \o uriCall.span_id
                        \o S(<<"/", "i", "m", "a", "g", "e", "s", "/">>)
                        \o uriCall.random_id \o ExtensionOf(uriCall.content_type))

-----------------------------------------------------------------------------
(* Properties of the upload pipeline *)

\* every scheduled task has run: nothing queued, no worker busy
Quiescent == workQueue = <<>> /\ \A w \in Workers : running[w] = Idle

Covers(metadata, supplied) ==
    /\ DOMAIN supplied \subseteq DOMAIN metadata
    /\ \A k \in DOMAIN supplied : metadata[k] = supplied[k]

UploadStored(i) ==
    /\ uploads[i].out.kind = "return"
    /\ uploads[i].out.value.v \in DOMAIN store
    /\ Covers(store[uploads[i].out.value.v].metadata,
              UploadMetadata(uploads[i].trace_id, uploads[i].span_id,
                             uploads[i].image_name))

\* C4: once every scheduled task has run, the N calls of upload_base64_image
\* made so far have left N objects in the store at pairwise distinct
\* destination URIs, each with the caller's metadata keys, and no task has
\* failed.
C4_EveryUploadIsStored ==
    Quiescent =>
        /\ \A i \in 1..Len(uploads) : UploadStored(i)
        /\ \A i, j \in 1..Len(uploads) :
              i # j => uploads[i].out # uploads[j].out
        /\ \A k \in 1..Len(futures) : futures[k].outcome.kind = "return"

FutureFailed(k) ==
    futures[k].state = "FINISHED" /\ futures[k].outcome.kind = "raise"

\* C5: a failure of a scheduled upload task is reported: for every task
\* whose execution raised there is a record about that task on the one
\* channel the uploader reads or writes after submission, the module logger
\* (the future that submit returns is not kept).
C5_TaskFailureIsReported ==
    \A k \in 1..Len(futures) :
        FutureFailed(k) =>
            \E i \in 1..Len(log) : log[i].source = "task" /\ log[i].ref = k

\* C6: upload_base64_image hands the destination URI back to its caller on
\* submission: every call that has ended has returned a URI, and its task
\* has been submitted (queued, taken or finished), whatever the workers did.
C6_UriReturnedOnSubmission ==
    /\ \A i \in 1..Len(uploads) :
          uploads[i].out.kind = "return" /\ uploads[i].out.value.t = "str"
    /\ Len(futures) >= Len(uploads)

-----------------------------------------------------------------------------
(* Properties of _compute_insert_id *)

InsertIdDone == insertCall # NoCall /\ insertCall.outA # NoCall

Absent == [t |-> "absent", v |-> <<>>]

AttributeItems(record) ==
    IF record.attributes.t = "None" THEN <<>> ELSE record.attributes.v

\* the hashed fields of a view, by name
HashedField(olog, f) ==
    CASE f = "event_name" -> DictGet(AttributeItems(olog.record), EventNameKey, Absent)
      [] f = "timestamp" -> olog.record.timestamp
      [] f = "trace_id" -> olog.record.trace_id
      [] f = "span_id" -> olog.record.span_id
      [] f = "attributes.a" -> DictGet(AttributeItems(olog.record), KeyA, Absent)
      [] f = "attributes.b" -> DictGet(AttributeItems(olog.record), KeyB, Absent)
      [] f = "resource.a" -> DictGet(olog.resource.attributes, KeyA, Absent)
      [] f = "resource.b" -> DictGet(olog.resource.attributes, KeyB, Absent)

HashedFields ==
    {"event_name", "timestamp", "trace_id", "span_id", "attributes.a",
     "attributes.b", "resource.a", "resource.b"}

ChangedFields(a, b) == {f \in HashedFields : HashedField(a, f) # HashedField(b, f)}

\* C7: for two views that agree on every hashed field (their mappings may
\* have been built in different orders), _compute_insert_id returns the
\* identical hex string.
C7_InsertIdIgnoresMappingOrder ==
    (InsertIdDone /\ ChangedFields(insertCall.a, insertCall.b) = {}) =>
        /\ insertCall.outA.kind = "return"
        /\ insertCall.outA = insertCall.outB

\* C8: for two views that differ in the value of exactly one hashed field,
\* _compute_insert_id yields different insert identifiers.
C8_FieldChangeChangesInsertId ==
    (InsertIdDone /\ Cardinality(ChangedFields(insertCall.a, insertCall.b)) = 1) =>
        insertCall.outA # insertCall.outB

-----------------------------------------------------------------------------
(* Properties of _otlp_severity_to_gcp_severity *)

SeverityDone == sevCall # NoCall /\ sevCall.out # NoCall

\* the level the bands give to a severity number n >= UNSPECIFIED
BandLevel(n) ==
    CASE n = UNSPECIFIED -> "DEFAULT"
      [] n \in TRACE..(INFO - 1) -> "DEBUG"
      [] n \in INFO..(WARN - 1) -> "INFO"
      [] n \in WARN..(ERROR - 1) -> "WARNING"
      [] n \in ERROR..(FATAL - 1) -> "ERROR"
      [] OTHER -> "CRITICAL"

\* C9: every severity number from UNSPECIFIED upward, also above FATAL, maps
\* to a level, never to no value, and the level is the one of its band:
\* UNSPECIFIED -> DEFAULT, [TRACE, INFO) -> DEBUG, [INFO, WARN) -> INFO,
\* [WARN, ERROR) -> WARNING, [ERROR, FATAL) -> ERROR, [FATAL, +inf) -> CRITICAL.
C9_SeverityBandsTotal ==
    (SeverityDone /\ sevCall.arg >= UNSPECIFIED) =>
        /\ sevCall.out.kind = "return"
        /\ sevCall.out.value.t = "LogSeverity"
        /\ sevCall.out.value.v = BandLevel(sevCall.arg)

\* the mapping has been applied to FATAL itself and to a number above FATAL
C9_Witness_AtFatal ==
    /\ SeverityDone
    /\ sevCall.arg = FATAL
    /\ sevCall.out.value.t = "LogSeverity"
    /\ sevCall.out.value.v = "CRITICAL"

-----------------------------------------------------------------------------
(* Properties of CloudLoggingLogsExporter.export *)

ExportDone == exportCall # NoCall /\ exportCall.out # NoCall

\* C10: export translates each record of the batch once and reports the
\* outcome as an export result: after export of a non-empty batch the
\* records handed to the translator are the records of the batch, each once,
\* and the call has returned a LogExportResult.
C10_ExportTranslatesEachRecord ==
    (ExportDone /\ exportCall.batch # <<>>) =>
        /\ exportCall.translated = exportCall.batch
        /\ exportCall.out.kind = "return"
        /\ exportCall.out.value.t = "LogExportResult"

-----------------------------------------------------------------------------
(* Properties of _otlp_severity_text_to_gcp_severity *)

SeverityTextDone == sevTextCall # NoCall /\ sevTextCall.out # NoCall

\* the text without its trailing decimal digits
RECURSIVE WithoutTrailingDigits(_)
WithoutTrailingDigits(s) ==
    IF s # <<>> /\ s[Len(s)] \in 48..57
    THEN WithoutTrailingDigits(SubSeq(s, 1, Len(s) - 1))
    ELSE s

\* the level of a lower-cased, digit-stripped severity text
TextLevel(s) ==
    CASE s \in {S(<<"t", "r", "a", "c", "e">>), S(<<"d", "e", "b", "u", "g">>)} -> "DEBUG"
      [] s = S(<<"i", "n", "f", "o">>) -> "INFO"
      [] s = S(<<"w", "a", "r", "n">>) -> "WARNING"
      [] s = S(<<"e", "r", "r", "o", "r">>) -> "ERROR"
      [] s = S(<<"f", "a", "t", "a", "l">>) -> "CRITICAL"
      [] OTHER -> "DEFAULT"

\* C11: for every severity text, the empty text and texts of decimal digits
\* only included, _otlp_severity_text_to_gcp_severity returns, without
\* raising, the level found by lower-casing the text, stripping all trailing
\* decimal digits and looking the rest up in the table, DEFAULT when the
\* table has no entry.
C11_SeverityTextTotal ==
    SeverityTextDone =>
        /\ sevTextCall.out.kind = "return"
        /\ sevTextCall.out.value.v =
              TextLevel(WithoutTrailingDigits(lower(sevTextCall.arg)))

-----------------------------------------------------------------------------
(* Properties of _compute_timestamp *)

TimestampDone == tsCall # NoCall /\ tsCall.out # NoCall

\* C12: for every source timestamp t in nanoseconds since the epoch,
\* _compute_timestamp yields a Timestamp (seconds, nanos) of the same
\* instant: seconds * 1,000,000,000 + nanos = t with
\* 0 <= nanos < 1,000,000,000, nanos within its 32-bit range.  With t written
\* in base 1,000,000,000 the only such pair is the pair of its two digits.
C12_TimestampSameInstant ==
    TimestampDone =>
        /\ tsCall.out.kind = "return"
        /\ tsCall.out.value.nanos >= 0
        /\ tsCall.out.value.nanos < NanosPerSecond
        /\ tsCall.out.value.nanos <= Int32Max
        /\ tsCall.out.value.seconds = tsCall.t.v[1]
        /\ tsCall.out.value.nanos = tsCall.t.v[2]

=============================================================================
